---- MODULE Spec2Model ----
(***************************************************************************)
(* VoiceInvoice backend: the invoice record model (backend/models.py),     *)
(* the lookup tables (backend/config.py), the reconciler                   *)
(* autofill_invoice_data (backend/core/utils.py), the JSON extraction,     *)
(* validation and autofill steps of extract_and_validate_invoice_data and  *)
(* the model loader (backend/services/llm_service.py), the endpoints       *)
(* (backend/main.py), generate_invoice_pdf (backend/services/              *)
(* pdf_service.py) and the bucket (backend/services/storage_service.py).   *)
(*                                                                         *)
(* Four specifications: Spec, the record pipeline on a request body, with  *)
(* a second reconciliation pass; SpecAudio, extract_and_validate_invoice_  *)
(* data from the model output on; SpecExtract, the same function from its  *)
(* readiness check on, with its temporary file; SpecService, the           *)
(* endpoints.                                                              *)
(*                                                                         *)
(* Representation.                                                         *)
(*  - Money is an integer number of cents; a quantity is an integer number *)
(*    of hundredths; a tax rate is an integer number of hundredths         *)
(*    (0.08 is 8).  round(x, 2) is RoundDiv below.  The amounts the model  *)
(*    draws are exactly representable as binary floats wherever a          *)
(*    rounding tie occurs, so Python's float round() and RoundDiv agree on *)
(*    them.                                                                *)
(*  - A Python str that the code inspects (client_name, description) is a  *)
(*    sequence of one-character strings; a str it only tests for           *)
(*    emptiness is a TLA+ string.                                          *)
(*  - A date string is a record: Iso(d) is the zero-padded YYYY-MM-DD      *)
(*    text of day number d, Loose(d) a text such as "2024-1-5" that        *)
(*    strptime accepts but strftime never produces, BadDate a text         *)
(*    strptime rejects, EmptyDate the empty string.                        *)
(*  - Python objects live in `heap`; a reference is an index into it.      *)
(***************************************************************************)
EXTENDS Integers, Sequences, FiniteSets, TLC

VARIABLES
    raw,      \* llm_raw_output: the text decoded from the model, or NoText
    payload,  \* the decoded JSON object / the request body, or NoPayload
    heap,     \* the Python objects: InvoiceData and InvoiceItem instances
    invoice_data, \* reference to the current record (0: none yet)
    arg,      \* reference to the record last passed to autofill_invoice_data (0: none)
    now,      \* the day datetime.now() reports
    passes,   \* number of autofill_invoice_data calls that returned
    pc,       \* where the run stands
    err,      \* the exception that ended the run, or NoError
    llm_service, \* the globals qwen2_audio_model, qwen2_audio_processor of llm_service.py
    main,     \* the same two names as bound in main.py by its import
    minio,    \* the objects stored in the two buckets
    response, \* the HTTP response of the request, or NoResponse
    upload,   \* the upload_file call made by generate_invoice_pdf, or NoUpload
    temp_audio_file \* os.path.exists(temp_audio_file_path) of the audio call

\* The state of the service around the record pipeline.
service == <<llm_service, main, minio, response, upload>>

vars == <<raw, payload, heap, invoice_data, arg, now, passes, pc, err,
          llm_service, main, minio, response, upload, temp_audio_file>>

----------------------------------------------------------------------------
(* Optional values: a key missing from a dict, Python None, a value.       *)

Absent == [t |-> "Absent"]

None == [t |-> "None"]

Some(v) == [t |-> "Some", v |-> v]

IsSome(x) == x.t = "Some"

\* Pydantic's reading of an Optional field with default None.
OrNone(x) == IF IsSome(x) THEN x ELSE None

Range(s) == {s[i] : i \in DOMAIN s}

RECURSIVE SumSeq(_)
SumSeq(s) == IF s = <<>> THEN 0 ELSE Head(s) + SumSeq(Tail(s))

----------------------------------------------------------------------------
(* Bounds of the model.                                                    *)

\* Longest item list of a payload.
MaxItems == 2

\* Last day number a datetime can hold (datetime.max).
MaxDay == 200

\* Number of midnights that may pass during a run.
MaxTicks == 1

\* Days added to invoice_date for the default due_date.
DueDays == 30

\* The system default tax rate (hundredths) of InvoiceData.tax_rate.
DefaultTaxRate == 8

FirstNow == MaxDay \div 2

----------------------------------------------------------------------------
(* Strings.                                                                *)

UpperChars == <<"A", "B", "C", "D", "E", "F", "G", "H", "I", "J", "K", "L", "M",
                "N", "O", "P", "Q", "R", "S", "T", "U", "V", "W", "X", "Y", "Z">>

LowerChars == <<"a", "b", "c", "d", "e", "f", "g", "h", "i", "j", "k", "l", "m",
                "n", "o", "p", "q", "r", "s", "t", "u", "v", "w", "x", "y", "z">>

LowerChar(c) ==
    IF \E i \in DOMAIN UpperChars : UpperChars[i] = c
    THEN LowerChars[CHOOSE i \in DOMAIN UpperChars : UpperChars[i] = c]
    ELSE c

\* str.lower()
Lower(s) == [i \in DOMAIN s |-> LowerChar(s[i])]

RECURSIVE LStrip(_)
LStrip(s) == IF s # <<>> /\ Head(s) = " " THEN LStrip(Tail(s)) ELSE s

RECURSIVE RStrip(_)
RStrip(s) ==
    IF s # <<>> /\ s[Len(s)] = " " THEN RStrip(SubSeq(s, 1, Len(s) - 1)) ELSE s

\* str.strip()
Strip(s) == RStrip(LStrip(s))

\* `k in s` for two str
Contains(s, k) ==
    \E i \in 1..(Len(s) - Len(k) + 1) : SubSeq(s, i, i + Len(k) - 1) = k

JohnDoe == <<"J", "o", "h", "n", " ", "D", "o", "e">>

AcmeCorpPadded == <<" ", "A", "C", "M", "E", " ", "C", "o", "r", "p", " ">>

Bob == <<"B", "o", "b">>

Laptop == <<"L", "a", "p", "t", "o", "p">>

MechanicalKeyboardPro ==
    <<"M", "e", "c", "h", "a", "n", "i", "c", "a", "l", " ", "K", "e", "y", "b",
      "o", "a", "r", "d", " ", "P", "r", "o">>

Widget == <<"W", "i", "d", "g", "e", "t">>

WirelessMouse == <<"W", "i", "r", "e", "l", "e", "s", "s", " ", "M", "o", "u", "s", "e">>

----------------------------------------------------------------------------
(* backend/config.py: the lookup tables.                                   *)

john_doe == <<"j", "o", "h", "n", " ", "d", "o", "e">>

acme_corp == <<"a", "c", "m", "e", " ", "c", "o", "r", "p">>

user_db ==
    << [key |-> john_doe, address |-> "123 Elm St, Springfield, IL",
        default_tax_rate |-> 7],
       [key |-> acme_corp, address |-> "456 Oak Ave, Metropolis, NY",
        default_tax_rate |-> 9] >>

\* item_db in insertion order; unit_price in cents.
item_db ==
    << [key |-> <<"l", "a", "p", "t", "o", "p">>, unit_price |-> 120000],
       [key |-> <<"k", "e", "y", "b", "o", "a", "r", "d">>, unit_price |-> 7500],
       [key |-> <<"m", "o", "u", "s", "e">>, unit_price |-> 2500],
       [key |-> <<"s", "o", "f", "t", "w", "a", "r", "e", " ", "l", "i", "c", "e",
                  "n", "s", "e">>, unit_price |-> 30000],
       [key |-> <<"c", "o", "n", "s", "u", "l", "t", "i", "n", "g", " ", "s", "e",
                  "r", "v", "i", "c", "e", "s">>, unit_price |-> 15000],
       [key |-> <<"w", "e", "b", " ", "d", "e", "v", "e", "l", "o", "p", "m", "e",
                  "n", "t">>, unit_price |-> 10000],
       [key |-> <<"g", "r", "a", "p", "h", "i", "c", " ", "d", "e", "s", "i", "g",
                  "n">>, unit_price |-> 8000] >>

\* `name in user_db`
InUserDb(name) == \E i \in DOMAIN user_db : user_db[i].key = name

\* user_db[name]
UserInfo(name) == user_db[CHOOSE i \in DOMAIN user_db : user_db[i].key = name]

----------------------------------------------------------------------------
(* Arithmetic.                                                             *)

\* round(n / d) to the nearest integer, ties to even (Python's round), n >= 0.
RoundDiv(n, d) ==
    LET q == n \div d
        r == n % d
    IN  IF 2 * r < d THEN q
        ELSE IF 2 * r > d THEN q + 1
        ELSE IF q % 2 = 0 THEN q ELSE q + 1

\* round(quantity * unit_price, 2): hundredths times cents, to cents.
LineTotal(quantity, unit_price) == RoundDiv(quantity * unit_price, 100)

\* round(subtotal * rate, 2): cents times hundredths, to cents.
TaxOf(subtotal, rate) == RoundDiv(subtotal * rate, 100)

----------------------------------------------------------------------------
(* Dates.                                                                  *)

Iso(d) == [fmt |-> "iso", day |-> d]

Loose(d) == [fmt |-> "loose", day |-> d]

BadDate == [fmt |-> "bad"]

EmptyDate == [fmt |-> "empty"]

\* Truthiness of an Optional[str] date field.
DateTruthy(x) == IsSome(x) /\ x.v # EmptyDate

\* datetime.strptime(s, "%Y-%m-%d"): the day, or ValueError.
Strptime(s) ==
    IF s.fmt \in {"iso", "loose"}
    THEN [ok |-> TRUE, day |-> s.day]
    ELSE [ok |-> FALSE]

\* d.strftime("%Y-%m-%d")
Strftime(d) == Iso(d)

----------------------------------------------------------------------------
(* backend/models.py: the record model.                                    *)

NoError == [type |-> "none", fields |-> {}, message |-> ""]

NoText == <<"<none>">>

NoPayload == [t |-> "None"]

\* Truthiness of an Optional[str] held as a TLA+ string.
StrTruthy(x) == IsSome(x) /\ x.v # ""

\* Truthiness of an Optional[str] held as a character sequence.
CharsTruthy(x) == IsSome(x) /\ x.v # <<>>

\* Truthiness of an Optional[float].
NumTruthy(x) == IsSome(x) /\ x.v # 0

\* A validation error: the violated field, and the item it belongs to
\* (0 for a field of the invoice itself).
FieldError(i, f) == [item |-> i, field |-> f]

\* The constraint read as ge=0: zero is let through.
NonNegativeFloatErrors(d, i, f) ==
    IF IsSome(d[f]) /\ d[f].v >= 0 THEN {} ELSE {FieldError(i, f)}

\* Field(..., gt=0) on a required float.
PositiveFloatErrors(d, i, f) ==
    IF IsSome(d[f]) /\ d[f].v > 0 THEN {} ELSE {FieldError(i, f)}

\* Validation of one element of "items" against InvoiceItem.
ItemErrors(d, i) ==
    (IF IsSome(d.description) THEN {} ELSE {FieldError(i, "description")})
    \cup PositiveFloatErrors(d, i, "quantity")
    \cup PositiveFloatErrors(d, i, "unit_price")

\* Field(0.08, ge=0, le=1) on Optional[float].
TaxRateErrors(p) ==
    IF IsSome(p.tax_rate) /\ (p.tax_rate.v < 0 \/ p.tax_rate.v > 100)
    THEN {FieldError(0, "tax_rate")}
    ELSE {}

\* Every violated field of a payload (pydantic collects them all).
ValidationErrors(p) ==
    TaxRateErrors(p)
    \cup UNION {ItemErrors(p.items[i], i) : i \in DOMAIN p.items}

\* model_post_init with the `if self.total is None` test dropped.
ItemPostInitAlways(it) ==
    [it EXCEPT !.total = Some(LineTotal(it.quantity.v, it.unit_price.v))]

\* InvoiceItem.model_post_init: total is computed only when none was given.
ItemPostInit(it) ==
    IF it.total = None
    THEN [it EXCEPT !.total = Some(LineTotal(it.quantity.v, it.unit_price.v))]
    ELSE it

\* InvoiceItem(**d) for a dict that passed validation.
InvoiceItem(d) ==
    ItemPostInit([description |-> d.description,
                  quantity    |-> d.quantity,
                  unit_price  |-> d.unit_price,
                  total       |-> OrNone(d.total)])

\* sum(item.total for item in items if item.total is not None), rounded.
SumTotals(its) ==
    SumSeq([i \in DOMAIN its |-> IF IsSome(its[i].total) THEN its[i].total.v ELSE 0])

\* The three derived amounts of a record whose items are `its`.
WithTotals(r, its) ==
    LET subtotal  == SumTotals(its)
        effective == IF IsSome(r.tax_rate) THEN r.tax_rate.v ELSE 0
        tax       == TaxOf(subtotal, effective)
    IN  [r EXCEPT !.subtotal    = Some(subtotal),
                  !.tax_amount  = Some(tax),
                  !.grand_total = Some(subtotal + tax)]

\* The variant that computes an amount only when the payload gave none.
DataPostInitIfNone(r, its) ==
    LET filled == [i \in DOMAIN its |->
                     IF its[i].total = None
                     THEN [its[i] EXCEPT !.total =
                             Some(LineTotal(its[i].quantity.v, its[i].unit_price.v))]
                     ELSE its[i]]
        computed == WithTotals(r, filled)
    IN  [r EXCEPT !.subtotal    = IF @ = None THEN computed.subtotal ELSE @,
                  !.tax_amount  = IF @ = None THEN computed.tax_amount ELSE @,
                  !.grand_total = IF @ = None THEN computed.grand_total ELSE @]

\* InvoiceData.model_post_init.
DataPostInit(r, its) ==
    WithTotals(r, [i \in DOMAIN its |->
                     IF its[i].total = None
                     THEN [its[i] EXCEPT !.total =
                             Some(LineTotal(its[i].quantity.v, its[i].unit_price.v))]
                     ELSE its[i]])

\* The fields of InvoiceData(**p), its items left aside.
InvoiceDataFields(p) ==
    [client_name    |-> OrNone(p.client_name),
     client_address |-> OrNone(p.client_address),
     invoice_number |-> OrNone(p.invoice_number),
     invoice_date   |-> OrNone(p.invoice_date),
     due_date       |-> OrNone(p.due_date),
     items          |-> <<>>,
     subtotal       |-> OrNone(p.subtotal),
     tax_rate       |-> IF p.tax_rate = Absent THEN Some(DefaultTaxRate) ELSE p.tax_rate,
     tax_amount     |-> OrNone(p.tax_amount),
     grand_total    |-> OrNone(p.grand_total),
     notes          |-> OrNone(p.notes)]

\* InvoiceData.model_validate(p) on heap h: the new objects are appended,
\* the items first, then the record that refers to them.
ModelValidate(h, p) ==
    LET errors == ValidationErrors(p)
        its    == [i \in DOMAIN p.items |-> InvoiceItem(p.items[i])]
        n      == Len(its)
        rec    == [DataPostInit(InvoiceDataFields(p), its)
                     EXCEPT !.items = [i \in 1..n |-> Len(h) + i]]
    IN  IF errors # {}
        THEN [ok |-> FALSE, errors |-> errors, heap |-> h, id |-> 0]
        ELSE [ok |-> TRUE, errors |-> {}, heap |-> h \o its \o <<rec>>,
              id |-> Len(h) + n + 1]

\* The item objects of the record at reference id.
ItemsOf(h, id) == [i \in DOMAIN h[id].items |-> h[h[id].items[i]]]

\* The record at reference id as a value: its fields with the items inlined.
Deref(h, id) == [h[id] EXCEPT !.items = ItemsOf(h, id)]

----------------------------------------------------------------------------
(* backend/core/utils.py: autofill_invoice_data.                           *)

\* invoice_data.model_copy(): a new record that shares the item objects.
ModelCopyShallow(h, id) ==
    [heap |-> h \o <<h[id]>>, id |-> Len(h) + 1]

\* invoice_data.model_copy(deep=True): a new record and new items.
ModelCopyDeep(h, id) ==
    LET n == Len(h[id].items)
    IN  [heap |-> h \o ItemsOf(h, id)
                   \o <<[h[id] EXCEPT !.items = [i \in 1..n |-> Len(h) + i]]>>,
         id   |-> Len(h) + n + 1]

\* The client lookup with the name not lower-cased.
FillClientNoLower(r) ==
    IF ~CharsTruthy(r.client_name) THEN r
    ELSE LET normalized_client_name == Strip(r.client_name.v)
         IN  IF ~InUserDb(normalized_client_name) THEN r
             ELSE LET client_info == UserInfo(normalized_client_name)
                      r1 == IF ~StrTruthy(r.client_address)
                            THEN [r EXCEPT !.client_address = Some(client_info.address)]
                            ELSE r
                  IN  IF r1.tax_rate = None \/ r1.tax_rate = Some(DefaultTaxRate)
                      THEN [r1 EXCEPT !.tax_rate = Some(client_info.default_tax_rate)]
                      ELSE r1

\* The client lookup with the tax-rate guard of line 41 dropped.
FillClientAlways(r) ==
    IF ~CharsTruthy(r.client_name) THEN r
    ELSE LET normalized_client_name == Strip(Lower(r.client_name.v))
         IN  IF ~InUserDb(normalized_client_name) THEN r
             ELSE LET client_info == UserInfo(normalized_client_name)
                  IN  [r EXCEPT !.client_address =
                                   IF ~StrTruthy(r.client_address)
                                   THEN Some(client_info.address) ELSE @,
                                !.tax_rate = Some(client_info.default_tax_rate)]

\* The client lookup with lines 41-42 left out.
FillClientAddressOnly(r) ==
    IF ~CharsTruthy(r.client_name) THEN r
    ELSE LET normalized_client_name == Strip(Lower(r.client_name.v))
         IN  IF ~InUserDb(normalized_client_name) THEN r
             ELSE IF ~StrTruthy(r.client_address)
                  THEN [r EXCEPT !.client_address =
                                   Some(UserInfo(normalized_client_name).address)]
                  ELSE r

\* Lines 34-42: the client lookup on a record.
FillClient(r) ==
    IF ~CharsTruthy(r.client_name) THEN r
    ELSE LET normalized_client_name == Strip(Lower(r.client_name.v))
         IN  IF ~InUserDb(normalized_client_name) THEN r
             ELSE LET client_info == UserInfo(normalized_client_name)
                      r1 == IF ~StrTruthy(r.client_address)
                            THEN [r EXCEPT !.client_address = Some(client_info.address)]
                            ELSE r
                  IN  IF r1.tax_rate = None \/ r1.tax_rate = Some(DefaultTaxRate)
                      THEN [r1 EXCEPT !.tax_rate = Some(client_info.default_tax_rate)]
                      ELSE r1

\* Lines 46-52: the catalog lookup, first match in table order.
FillUnitPrice(it) ==
    IF ~NumTruthy(it.unit_price) /\ CharsTruthy(it.description)
    THEN LET normalized_description == Strip(Lower(it.description.v))
             hits == {i \in DOMAIN item_db :
                        Contains(normalized_description, item_db[i].key)}
         IN  IF hits = {} THEN it
             ELSE LET first == CHOOSE i \in hits : \A j \in hits : i <= j
                  IN  [it EXCEPT !.unit_price = Some(item_db[first].unit_price)]
    ELSE it

\* The item total computed only when the item has none (as model_post_init does).
FillTotalIfNone(it) ==
    IF it.total = None /\ it.quantity # None /\ it.unit_price # None
    THEN [it EXCEPT !.total = Some(LineTotal(it.quantity.v, it.unit_price.v))]
    ELSE IF it.total = None THEN [it EXCEPT !.total = Some(0)]
    ELSE it

\* Lines 54-57: the item total.
FillTotal(it) ==
    IF it.quantity # None /\ it.unit_price # None
    THEN [it EXCEPT !.total = Some(LineTotal(it.quantity.v, it.unit_price.v))]
    ELSE IF it.total = None THEN [it EXCEPT !.total = Some(0)]
    ELSE it

\* Lines 44-57: the loop over the items the record refers to, from the i-th on.
RECURSIVE FillItemsFrom(_, _, _)
FillItemsFrom(h, refs, i) ==
    IF i > Len(refs) THEN h
    ELSE FillItemsFrom([h EXCEPT ![refs[i]] = FillTotal(FillUnitPrice(h[refs[i]]))],
                       refs, i + 1)

FillItems(h, id) == FillItemsFrom(h, h[id].items, 1)

\* Lines 60-63: subtotal, tax_amount, grand_total.
Recalculate(h, id) == [h EXCEPT ![id] = WithTotals(h[id], ItemsOf(h, id))]

\* The default invoice_date, a supplied date being rewritten in ISO form.
FillInvoiceDateNormalised(r, today) ==
    IF ~DateTruthy(r.invoice_date)
    THEN [r EXCEPT !.invoice_date = Some(Strftime(today))]
    ELSE IF Strptime(r.invoice_date.v).ok
    THEN [r EXCEPT !.invoice_date = Some(Strftime(Strptime(r.invoice_date.v).day))]
    ELSE r

\* Lines 66-67: the default invoice_date.
FillInvoiceDate(r, today) ==
    IF ~DateTruthy(r.invoice_date)
    THEN [r EXCEPT !.invoice_date = Some(Strftime(today))]
    ELSE r

\* The default due_date with the timedelta forgotten.
FillDueDateNoDelta(r, today) ==
    IF DateTruthy(r.due_date) THEN [raised |-> FALSE, rec |-> r]
    ELSE LET invoice_date_dt == Strptime(r.invoice_date.v)
             base == IF invoice_date_dt.ok THEN invoice_date_dt.day ELSE today
         IN  [raised |-> FALSE, rec |-> [r EXCEPT !.due_date = Some(Strftime(base))]]

\* The default due_date always counted from the current date.
FillDueDateFromToday(r, today) ==
    IF DateTruthy(r.due_date) THEN [raised |-> FALSE, rec |-> r]
    ELSE IF today + DueDays > MaxDay
         THEN [raised |-> TRUE, rec |-> r]
         ELSE [raised |-> FALSE,
               rec |-> [r EXCEPT !.due_date = Some(Strftime(today + DueDays))]]

\* Lines 68-74: the default due_date.  datetime + timedelta raises
\* OverflowError past datetime.max, which `except (ValueError, TypeError)`
\* does not catch.
FillDueDate(r, today) ==
    IF DateTruthy(r.due_date) THEN [raised |-> FALSE, rec |-> r]
    ELSE LET invoice_date_dt == Strptime(r.invoice_date.v)
             base == IF invoice_date_dt.ok THEN invoice_date_dt.day ELSE today
         IN  IF base + DueDays > MaxDay
             THEN [raised |-> TRUE, rec |-> r]
             ELSE [raised |-> FALSE,
                   rec |-> [r EXCEPT !.due_date = Some(Strftime(base + DueDays))]]

\* autofill_invoice_data with lines 60-63 moved before the item loop.
AutofillTotalsFirst(h, id, today) ==
    LET copy == ModelCopyDeep(h, id)
        c    == copy.id
        h1   == [copy.heap EXCEPT ![c] = FillClient(copy.heap[c])]
        h2   == Recalculate(h1, c)
        h3   == FillItems(h2, c)
        h4   == [h3 EXCEPT ![c] = FillInvoiceDate(h3[c], today)]
        due  == FillDueDate(h4[c], today)
    IN  IF due.raised
        THEN [raised |-> TRUE, heap |-> h4, id |-> 0]
        ELSE [raised |-> FALSE, heap |-> [h4 EXCEPT ![c] = due.rec], id |-> c]

\* autofill_invoice_data(h[id]) with datetime.now() on day `today`: the heap
\* after the call and the reference returned, or the exception raised.
Autofill(h, id, today) ==
    LET copy == ModelCopyDeep(h, id)
        c    == copy.id
        h1   == [copy.heap EXCEPT ![c] = FillClient(copy.heap[c])]
        h2   == FillItems(h1, c)
        h3   == Recalculate(h2, c)
        h4   == [h3 EXCEPT ![c] = FillInvoiceDate(h3[c], today)]
        due  == FillDueDate(h4[c], today)
    IN  IF due.raised
        THEN [raised |-> TRUE, heap |-> h4, id |-> 0]
        ELSE [raised |-> FALSE, heap |-> [h4 EXCEPT ![c] = due.rec], id |-> c]

----------------------------------------------------------------------------
(* The request bodies the structured-data entry point is given.            *)

LaptopItem ==
    [description |-> Some(Laptop), quantity |-> Some(100),
     unit_price |-> Some(120000), total |-> Absent]

\* No unit_price: the catalog is meant to supply it.
KeyboardItem ==
    [description |-> Some(MechanicalKeyboardPro), quantity |-> Some(200),
     unit_price |-> Absent, total |-> Absent]

\* 1.5 x 0.25 = 0.375, a rounding tie; the payload brings its own total.
WidgetItem ==
    [description |-> Some(Widget), quantity |-> Some(150),
     unit_price |-> Some(25), total |-> Some(99900)]

\* quantity -1 and unit_price 0: two violated constraints.
MouseItem ==
    [description |-> Some(WirelessMouse), quantity |-> Some(0 - 100),
     unit_price |-> Some(0), total |-> None]

ItemDicts == {LaptopItem, KeyboardItem, WidgetItem, MouseItem}

ItemLists == UNION {[1..n -> ItemDicts] : n \in 0..MaxItems}

ClientNames == {Absent, Some(JohnDoe), Some(AcmeCorpPadded), Some(Bob)}

ClientAddresses == {Absent, Some(""), Some("9 Own Rd")}

\* unset key, null, 0.05, 1.5
TaxRates == {Absent, None, Some(5), Some(150)}

SuppliedAmounts == {Absent, Some(99900)}

EarlyDay == FirstNow - 20

LateDay == MaxDay - 5

InvoiceDates ==
    {Absent, Some(EmptyDate), Some(BadDate), Some(Iso(EarlyDay)),
     Some(Loose(EarlyDay)), Some(Iso(LateDay))}

DueDates == {Absent, Some(EmptyDate), Some(BadDate), Some(Iso(FirstNow + 7))}

Body(name, address, number, invoice_date, due_date, items, amount, rate, notes) ==
    [client_name    |-> name,
     client_address |-> address,
     invoice_number |-> number,
     invoice_date   |-> invoice_date,
     due_date       |-> due_date,
     items          |-> items,
     subtotal       |-> amount,
     tax_rate       |-> rate,
     tax_amount     |-> amount,
     grand_total    |-> amount,
     notes          |-> notes]

\* Bodies that vary the client, the tax rate, the items and the amounts.
MoneyBodies ==
    {Body(n, a, Absent, Absent, Absent, its, amt, rate, Absent) :
        n \in ClientNames, a \in ClientAddresses, its \in ItemLists,
        amt \in SuppliedAmounts, rate \in TaxRates}

\* Bodies that vary the dates, the client and the items.
DateBodies ==
    {Body(n, Absent, Some("INV-7"), d, due, its, Absent, Absent, Some("net 30")) :
        n \in ClientNames, d \in InvoiceDates, due \in DueDates, its \in ItemLists}

Bodies == MoneyBodies \cup DateBodies

----------------------------------------------------------------------------
(* backend/services/llm_service.py: the JSON extraction step.              *)
(*                                                                         *)
(* The model output is a sequence of tokens:                               *)
(*   "J"  the text ```json          "T"  the text ```                      *)
(*   "{"  an opening brace          "}"  a closing brace                   *)
(*   "k"  the members "client_name": "John Doe", "items": [...] of the     *)
(*        example object, braces of the item included                      *)
(*   "w"  white space               "x"  any other prose                   *)

\* Longest model output, in tokens.
MaxLen == 5

Tokens == {"J", "T", "{", "}", "k", "w", "x"}

\* The tokens the text ``` matches at: ```json begins with it.
Backticks == {"T", "J"}

\* The first position after i that holds no white space (Len(t) + 1: none).
RECURSIVE SkipSpace(_, _)
SkipSpace(t, i) ==
    IF i + 1 <= Len(t) /\ t[i + 1] = "w" THEN SkipSpace(t, i + 1) ELSE i + 1

\* \} \s* ``` matches at position e.
ClosesFence(t, e) ==
    /\ t[e] = "}"
    /\ SkipSpace(t, e) <= Len(t)
    /\ t[SkipSpace(t, e)] \in Backticks

\* ```json \s* \{ .* \} \s* ``` matches from position i.
FenceAt(t, i) ==
    /\ t[i] = "J"
    /\ SkipSpace(t, i) <= Len(t)
    /\ t[SkipSpace(t, i)] = "{"
    /\ \E e \in (SkipSpace(t, i) + 1)..Len(t) : ClosesFence(t, e)

NoMatch == [found |-> FALSE, span |-> <<>>]

\* re.search(r"```json\s*(\{.*\})\s*```", t, re.DOTALL): the leftmost match,
\* the greedy .* taking the last closing brace that lets the rest match.
FenceSearch(t) ==
    LET starts == {i \in DOMAIN t : FenceAt(t, i)}
    IN  IF starts = {} THEN NoMatch
        ELSE LET i == CHOOSE a \in starts : \A b \in starts : a <= b
                 o == SkipSpace(t, i)
                 ends == {e \in (o + 1)..Len(t) : ClosesFence(t, e)}
                 last == CHOOSE a \in ends : \A b \in ends : a >= b
             IN  [found |-> TRUE, span |-> SubSeq(t, o, last)]

\* re.search(r"(\{.*\})", t, re.DOTALL): the first "{" to the last "}".
BraceSearch(t) ==
    LET opens  == {i \in DOMAIN t : t[i] = "{"}
        closes == {i \in DOMAIN t : t[i] = "}"}
        starts == {i \in opens : \E e \in closes : e > i}
    IN  IF starts = {} THEN NoMatch
        ELSE LET i == CHOOSE a \in starts : \A b \in starts : a <= b
                 last == CHOOSE a \in closes : \A b \in closes : a >= b
             IN  [found |-> TRUE, span |-> SubSeq(t, i, last)]

\* The search without the fallback of lines 168-170.
JsonMatchFenceOnly(t) == FenceSearch(t)

\* Lines 167-170: the fenced form first, the bare braces as the fallback.
JsonMatch(t) ==
    IF FenceSearch(t).found THEN FenceSearch(t) ELSE BraceSearch(t)

\* The tokens of s that are not white space.
RECURSIVE NoSpace(_)
NoSpace(s) ==
    IF s = <<>> THEN <<>>
    ELSE IF Head(s) = "w" THEN NoSpace(Tail(s))
    ELSE <<Head(s)>> \o NoSpace(Tail(s))

\* {"client_name": "John Doe", "items": [{"description": "Laptop",
\*  "quantity": 1, "unit_price": 1200.0}]}
ExampleObject ==
    Body(Some(JohnDoe), Absent, Absent, Absent, Absent, <<LaptopItem>>,
         Absent, Absent, Absent)

\* {}
EmptyObject ==
    Body(Absent, Absent, Absent, Absent, Absent, <<>>, Absent, Absent, Absent)

ModelX == <<"M", "o", "d", "e", "l", " ", "X">>

\* {"items": [{"description": "Laptop", "quantity": -1, "unit_price": 1200.0}]}
QuantityObject ==
    Body(Absent, Absent, Absent, Absent, Absent,
         <<[description |-> Some(Laptop), quantity |-> Some(0 - 100),
            unit_price |-> Some(120000), total |-> Absent]>>,
         Absent, Absent, Absent)

\* {"items": [{"description": "Mechanical Keyboard Pro", "quantity": 2}]}
KeyboardObject ==
    Body(Absent, Absent, Absent, Absent, Absent, <<KeyboardItem>>,
         Absent, Absent, Absent)

\* {"items": [{"description": "Model X", "quantity": 1}]}
ModelXObject ==
    Body(Absent, Absent, Absent, Absent, Absent,
         <<[description |-> Some(ModelX), quantity |-> Some(100),
            unit_price |-> Absent, total |-> Absent]>>,
         Absent, Absent, Absent)

\* {"invoice_date": "<a day within 30 days of datetime.max>"}
LateDateObject ==
    Body(Absent, Absent, Absent, Some(Iso(LateDay)), Absent, <<>>,
         Absent, Absent, Absent)

\* Member lists other than the example's, each one token:
\*   "q" that of QuantityObject      "p" that of KeyboardObject
\*   "u" that of ModelXObject        "d" that of LateDateObject
MemberTokens == {"q", "p", "u", "d"}

\* json.loads(s): the dict, or JSONDecodeError.
JsonLoads(s) ==
    IF NoSpace(s) = <<"{", "}">> THEN [ok |-> TRUE, value |-> EmptyObject]
    ELSE IF NoSpace(s) = <<"{", "k", "}">> THEN [ok |-> TRUE, value |-> ExampleObject]
    ELSE IF NoSpace(s) = <<"{", "q", "}">> THEN [ok |-> TRUE, value |-> QuantityObject]
    ELSE IF NoSpace(s) = <<"{", "p", "}">> THEN [ok |-> TRUE, value |-> KeyboardObject]
    ELSE IF NoSpace(s) = <<"{", "u", "}">> THEN [ok |-> TRUE, value |-> ModelXObject]
    ELSE IF NoSpace(s) = <<"{", "d", "}">> THEN [ok |-> TRUE, value |-> LateDateObject]
    ELSE [ok |-> FALSE, value |-> NoPayload]

RawTexts == UNION {[1..n -> Tokens] : n \in 0..MaxLen}

\* ```json\n{"client_name": "John Doe", "items": [...]}\n```
ExampleText == <<"J", "w", "{", "k", "}", "w", "T">>

\* Outputs that carry one of the other member lists: fenced, bare, and
\* bare inside prose.
SchemaTexts ==
    {<<"J", "w", "{", m, "}", "w", "T">> : m \in MemberTokens}
    \cup {<<"{", m, "}">> : m \in MemberTokens}
    \cup {<<"x", "{", m, "}", "x">> : m \in MemberTokens}

----------------------------------------------------------------------------
(* backend/services/llm_service.py, lines 189-193: the text of a pydantic  *)
(* ValidationError and what the handler makes of it.                       *)

\* The two words line 190 looks for.
ValidationWord ==
    <<"v", "a", "l", "i", "d", "a", "t", "i", "o", "n">>

ModelWord ==
    <<"m", "o", "d", "e", "l">>

\* str(ValidationError), pydantic 2: the title line after the error count.
ErrorForInvoiceData ==
    <<" ", "v", "a", "l", "i", "d", "a", "t", "i", "o", "n", " ", "e",
      "r", "r", "o", "r", " ", "f", "o", "r", " ", "I", "n", "v", "o",
      "i", "c", "e", "D", "a", "t", "a">>

ErrorsForInvoiceData ==
    <<" ", "v", "a", "l", "i", "d", "a", "t", "i", "o", "n", " ", "e",
      "r", "r", "o", "r", "s", " ", "f", "o", "r", " ", "I", "n", "v",
      "o", "i", "c", "e", "D", "a", "t", "a">>

\* The message of a violated gt=0, up to the echoed input.
GreaterThanText ==
    <<"\n", " ", " ", "I", "n", "p", "u", "t", " ", "s", "h", "o", "u",
      "l", "d", " ", "b", "e", " ", "g", "r", "e", "a", "t", "e", "r",
      " ", "t", "h", "a", "n", " ", "0", " ", "[", "t", "y", "p", "e",
      "=", "g", "r", "e", "a", "t", "e", "r", "_", "t", "h", "a", "n",
      ",", " ", "i", "n", "p", "u", "t", "_", "v", "a", "l", "u", "e",
      "=">>

GreaterThanUrl ==
    <<",", " ", "i", "n", "p", "u", "t", "_", "t", "y", "p", "e", "=",
      "f", "l", "o", "a", "t", "]", "\n", " ", " ", " ", " ", "F", "o",
      "r", " ", "f", "u", "r", "t", "h", "e", "r", " ", "i", "n", "f",
      "o", "r", "m", "a", "t", "i", "o", "n", " ", "v", "i", "s", "i",
      "t", " ", "h", "t", "t", "p", "s", ":", "/", "/", "e", "r", "r",
      "o", "r", "s", ".", "p", "y", "d", "a", "n", "t", "i", "c", ".",
      "d", "e", "v", "/", "2", ".", "1", "1", "/", "v", "/", "g", "r",
      "e", "a", "t", "e", "r", "_", "t", "h", "a", "n">>

\* The message of a missing required field.
MissingText ==
    <<"\n", " ", " ", "F", "i", "e", "l", "d", " ", "r", "e", "q", "u",
      "i", "r", "e", "d", " ", "[", "t", "y", "p", "e", "=", "m", "i",
      "s", "s", "i", "n", "g", ",", " ", "i", "n", "p", "u", "t", "_",
      "v", "a", "l", "u", "e", "=">>

MissingUrl ==
    <<",", " ", "i", "n", "p", "u", "t", "_", "t", "y", "p", "e", "=",
      "d", "i", "c", "t", "]", "\n", " ", " ", " ", " ", "F", "o", "r",
      " ", "f", "u", "r", "t", "h", "e", "r", " ", "i", "n", "f", "o",
      "r", "m", "a", "t", "i", "o", "n", " ", "v", "i", "s", "i", "t",
      " ", "h", "t", "t", "p", "s", ":", "/", "/", "e", "r", "r", "o",
      "r", "s", ".", "p", "y", "d", "a", "n", "t", "i", "c", ".", "d",
      "e", "v", "/", "2", ".", "1", "1", "/", "v", "/", "m", "i", "s",
      "s", "i", "n", "g">>

\* The message of a null in a required float.
FloatTypeText ==
    <<"\n", " ", " ", "I", "n", "p", "u", "t", " ", "s", "h", "o", "u",
      "l", "d", " ", "b", "e", " ", "a", " ", "v", "a", "l", "i", "d",
      " ", "n", "u", "m", "b", "e", "r", " ", "[", "t", "y", "p", "e",
      "=", "f", "l", "o", "a", "t", "_", "t", "y", "p", "e", ",", " ",
      "i", "n", "p", "u", "t", "_", "v", "a", "l", "u", "e", "=", "N",
      "o", "n", "e", ",", " ", "i", "n", "p", "u", "t", "_", "t", "y",
      "p", "e", "=", "N", "o", "n", "e", "T", "y", "p", "e", "]", "\n",
      " ", " ", " ", " ", "F", "o", "r", " ", "f", "u", "r", "t", "h",
      "e", "r", " ", "i", "n", "f", "o", "r", "m", "a", "t", "i", "o",
      "n", " ", "v", "i", "s", "i", "t", " ", "h", "t", "t", "p", "s",
      ":", "/", "/", "e", "r", "r", "o", "r", "s", ".", "p", "y", "d",
      "a", "n", "t", "i", "c", ".", "d", "e", "v", "/", "2", ".", "1",
      "1", "/", "v", "/", "f", "l", "o", "a", "t", "_", "t", "y", "p",
      "e">>

\* The messages of le=1 and ge=0.
LessThanEqualText ==
    <<"\n", " ", " ", "I", "n", "p", "u", "t", " ", "s", "h", "o", "u",
      "l", "d", " ", "b", "e", " ", "l", "e", "s", "s", " ", "t", "h",
      "a", "n", " ", "o", "r", " ", "e", "q", "u", "a", "l", " ", "t",
      "o", " ", "1", " ", "[", "t", "y", "p", "e", "=", "l", "e", "s",
      "s", "_", "t", "h", "a", "n", "_", "e", "q", "u", "a", "l", ",",
      " ", "i", "n", "p", "u", "t", "_", "v", "a", "l", "u", "e", "=">>

LessThanEqualUrl ==
    <<",", " ", "i", "n", "p", "u", "t", "_", "t", "y", "p", "e", "=",
      "f", "l", "o", "a", "t", "]", "\n", " ", " ", " ", " ", "F", "o",
      "r", " ", "f", "u", "r", "t", "h", "e", "r", " ", "i", "n", "f",
      "o", "r", "m", "a", "t", "i", "o", "n", " ", "v", "i", "s", "i",
      "t", " ", "h", "t", "t", "p", "s", ":", "/", "/", "e", "r", "r",
      "o", "r", "s", ".", "p", "y", "d", "a", "n", "t", "i", "c", ".",
      "d", "e", "v", "/", "2", ".", "1", "1", "/", "v", "/", "l", "e",
      "s", "s", "_", "t", "h", "a", "n", "_", "e", "q", "u", "a", "l">>

GreaterThanEqualText ==
    <<"\n", " ", " ", "I", "n", "p", "u", "t", " ", "s", "h", "o", "u",
      "l", "d", " ", "b", "e", " ", "g", "r", "e", "a", "t", "e", "r",
      " ", "t", "h", "a", "n", " ", "o", "r", " ", "e", "q", "u", "a",
      "l", " ", "t", "o", " ", "0", " ", "[", "t", "y", "p", "e", "=",
      "g", "r", "e", "a", "t", "e", "r", "_", "t", "h", "a", "n", "_",
      "e", "q", "u", "a", "l", ",", " ", "i", "n", "p", "u", "t", "_",
      "v", "a", "l", "u", "e", "=">>

GreaterThanEqualUrl ==
    <<",", " ", "i", "n", "p", "u", "t", "_", "t", "y", "p", "e", "=",
      "f", "l", "o", "a", "t", "]", "\n", " ", " ", " ", " ", "F", "o",
      "r", " ", "f", "u", "r", "t", "h", "e", "r", " ", "i", "n", "f",
      "o", "r", "m", "a", "t", "i", "o", "n", " ", "v", "i", "s", "i",
      "t", " ", "h", "t", "t", "p", "s", ":", "/", "/", "e", "r", "r",
      "o", "r", "s", ".", "p", "y", "d", "a", "n", "t", "i", "c", ".",
      "d", "e", "v", "/", "2", ".", "1", "1", "/", "v", "/", "g", "r",
      "e", "a", "t", "e", "r", "_", "t", "h", "a", "n", "_", "e", "q",
      "u", "a", "l">>

\* The message of a null in a required str.
StringTypeText ==
    <<"\n", " ", " ", "I", "n", "p", "u", "t", " ", "s", "h", "o", "u",
      "l", "d", " ", "b", "e", " ", "a", " ", "v", "a", "l", "i", "d",
      " ", "s", "t", "r", "i", "n", "g", " ", "[", "t", "y", "p", "e",
      "=", "s", "t", "r", "i", "n", "g", "_", "t", "y", "p", "e", ",",
      " ", "i", "n", "p", "u", "t", "_", "v", "a", "l", "u", "e", "=",
      "N", "o", "n", "e", ",", " ", "i", "n", "p", "u", "t", "_", "t",
      "y", "p", "e", "=", "N", "o", "n", "e", "T", "y", "p", "e", "]",
      "\n", " ", " ", " ", " ", "F", "o", "r", " ", "f", "u", "r", "t",
      "h", "e", "r", " ", "i", "n", "f", "o", "r", "m", "a", "t", "i",
      "o", "n", " ", "v", "i", "s", "i", "t", " ", "h", "t", "t", "p",
      "s", ":", "/", "/", "e", "r", "r", "o", "r", "s", ".", "p", "y",
      "d", "a", "n", "t", "i", "c", ".", "d", "e", "v", "/", "2", ".",
      "1", "1", "/", "v", "/", "s", "t", "r", "i", "n", "g", "_", "t",
      "y", "p", "e">>

Digits == <<"0", "1", "2", "3", "4", "5", "6", "7", "8", "9">>

\* str(n) for a natural number.
RECURSIVE DecimalChars(_)
DecimalChars(n) ==
    IF n < 10 THEN <<Digits[n + 1]>>
    ELSE DecimalChars(n \div 10) \o <<Digits[(n % 10) + 1]>>

\* The repr of a number held in hundredths: sign, digits and a point.
NumRepr(v) ==
    LET a == IF v < 0 THEN 0 - v ELSE v
    IN  (IF v < 0 THEN <<"-">> ELSE <<>>)
        \o DecimalChars(a \div 100) \o <<".">>
        \o <<Digits[((a % 100) \div 10) + 1], Digits[(a % 10) + 1]>>

\* The repr of an item dict: the keys it has, the description in quotes.
DictRepr(d) ==
    <<"{">>
    \o (IF IsSome(d.description)
        THEN <<"'", "d", "e", "s", "c", "r", "i", "p", "t", "i", "o", "n", "'",
               ":", " ", "'">> \o d.description.v \o <<"'", ",", " ">>
        ELSE <<>>)
    \o (IF IsSome(d.quantity)
        THEN <<"'", "q", "u", "a", "n", "t", "i", "t", "y", "'", ":", " ">>
             \o NumRepr(d.quantity.v)
        ELSE <<>>)
    \o (IF IsSome(d.unit_price)
        THEN <<",", " ", "'", "u", "n", "i", "t", "_", "p", "r", "i", "c", "e",
               "'", ":", " ">> \o NumRepr(d.unit_price.v)
        ELSE <<>>)
    \o <<"}">>

FieldChars(f) ==
    CASE f = "description" -> <<"d", "e", "s", "c", "r", "i", "p", "t", "i", "o", "n">>
      [] f = "quantity"    -> <<"q", "u", "a", "n", "t", "i", "t", "y">>
      [] f = "unit_price"  -> <<"u", "n", "i", "t", "_", "p", "r", "i", "c", "e">>
      [] f = "tax_rate"    -> <<"t", "a", "x", "_", "r", "a", "t", "e">>

\* The location line of an error: items.0.quantity, tax_rate.
LocChars(e) ==
    IF e.item = 0 THEN FieldChars(e.field)
    ELSE <<"i", "t", "e", "m", "s", ".">> \o DecimalChars(e.item - 1) \o <<".">>
         \o FieldChars(e.field)

\* The lines str() gives for one error of payload p.
ErrorText(p, e) ==
    <<"\n">> \o LocChars(e) \o
    (IF e.item = 0
     THEN (IF p.tax_rate.v > 100
           THEN LessThanEqualText \o NumRepr(p.tax_rate.v) \o LessThanEqualUrl
           ELSE GreaterThanEqualText \o NumRepr(p.tax_rate.v) \o GreaterThanEqualUrl)
     ELSE LET d == p.items[e.item]
          IN  IF d[e.field] = Absent THEN MissingText \o DictRepr(d) \o MissingUrl
              ELSE IF d[e.field] = None
              THEN (IF e.field = "description" THEN StringTypeText ELSE FloatTypeText)
              ELSE GreaterThanText \o NumRepr(d[e.field].v) \o GreaterThanUrl)

\* The errors of p in the order pydantic reports them: the items in order,
\* each item's fields in declaration order, then tax_rate.
RECURSIVE ErrorTexts(_, _, _)
ErrorTexts(p, errors, i) ==
    IF i > Len(p.items)
    THEN (IF FieldError(0, "tax_rate") \in errors
          THEN ErrorText(p, FieldError(0, "tax_rate")) ELSE <<>>)
    ELSE (IF FieldError(i, "description") \in errors
          THEN ErrorText(p, FieldError(i, "description")) ELSE <<>>)
         \o (IF FieldError(i, "quantity") \in errors
             THEN ErrorText(p, FieldError(i, "quantity")) ELSE <<>>)
         \o (IF FieldError(i, "unit_price") \in errors
             THEN ErrorText(p, FieldError(i, "unit_price")) ELSE <<>>)
         \o ErrorTexts(p, errors, i + 1)

\* str(e) for the ValidationError of payload p.
ValidationErrorStr(p) ==
    LET errors == ValidationErrors(p)
        n      == Cardinality(errors)
    IN  DecimalChars(n)
        \o (IF n = 1 THEN ErrorForInvoiceData ELSE ErrorsForInvoiceData)
        \o ErrorTexts(p, errors, 1)

\* Lines 189-193: an exception whose text holds "validation" and "model"
\* is re-raised as ValueError, any other as RuntimeError.
Reraise(text) ==
    IF Contains(Lower(text), ValidationWord) /\ Contains(Lower(text), ModelWord)
    THEN [type |-> "ValueError", fields |-> {},
          message |-> "Pydantic validation failed for extracted data"]
    ELSE [type |-> "RuntimeError", fields |-> {},
          message |-> "An unexpected error occurred during data extraction or validation"]

\* str(OverflowError) of datetime + timedelta.
DateOutOfRange ==
    <<"d", "a", "t", "e", " ", "v", "a", "l", "u", "e", " ", "o", "u", "t", " ",
      "o", "f", " ", "r", "a", "n", "g", "e">>

\* backend/main.py, lines 117-126: the status the audio endpoint answers an
\* exception with.
StatusOf(e) ==
    CASE e.type = "FileNotFoundError" -> 404
      [] e.type = "ValueError"        -> 400
      [] e.type = "RuntimeError"      -> 500
      [] OTHER                        -> 500

----------------------------------------------------------------------------
(* The service state: the model globals, the buckets, the response.        *)

\* Lines 16-17 of llm_service.py: both globals None.
Unloaded == [qwen2_audio_model |-> "None", qwen2_audio_processor |-> "None"]

\* Both globals set by a successful load_qwen2_audio_model.
Loaded == [qwen2_audio_model |-> "loaded", qwen2_audio_processor |-> "loaded"]

NoResponse ==
    [endpoint |-> "", object |-> "", status |-> 0, detail |-> "",
     content |-> None]

NoUpload == [invoice |-> 0, object_name |-> "", written |-> 0, length |-> 0]

----------------------------------------------------------------------------
(* The structured-data path: validate the body, then reconcile.            *)

Init ==
    /\ raw = NoText
    /\ payload \in Bodies
    /\ heap = <<>>
    /\ invoice_data = 0
    /\ arg = 0
    /\ now = FirstNow
    /\ passes = 0
    /\ pc = "request"
    /\ err = NoError
    /\ llm_service = Unloaded
    /\ main = Unloaded
    /\ minio = {}
    /\ response = NoResponse
    /\ upload = NoUpload
    /\ temp_audio_file = FALSE

\* InvoiceData.model_validate(payload): a record, or ValidationError.
Validate ==
    /\ pc = "request"
    /\ LET v == ModelValidate(heap, payload)
       IN  /\ heap' = v.heap
           /\ invoice_data' = v.id
           /\ pc' = IF v.ok THEN "validated" ELSE "rejected"
           /\ err' = IF v.ok THEN NoError
                     ELSE [type |-> "ValidationError", fields |-> v.errors,
                           message |-> "validation errors for InvoiceData"]
    /\ UNCHANGED <<raw, payload, arg, now, passes>>
    /\ UNCHANGED service
    /\ UNCHANGED temp_audio_file

\* invoice_data = autofill_invoice_data(invoice_data)
Reconcile ==
    /\ pc \in {"validated", "reconciled"}
    /\ passes < 2
    /\ LET a == Autofill(heap, invoice_data, now)
       IN  /\ heap' = a.heap
           /\ arg' = invoice_data
           /\ invoice_data' = IF a.raised THEN invoice_data ELSE a.id
           /\ passes' = IF a.raised THEN passes ELSE passes + 1
           /\ pc' = IF a.raised THEN "raised" ELSE "reconciled"
           /\ err' = IF a.raised
                     THEN [type |-> "OverflowError", fields |-> {},
                           message |-> "date value out of range"]
                     ELSE NoError
    /\ UNCHANGED <<raw, payload, now>>
    /\ UNCHANGED service
    /\ UNCHANGED temp_audio_file

\* Midnight passes between two calls.
Tick ==
    /\ pc \in {"validated", "reconciled"}
    /\ passes < 2
    /\ now < FirstNow + MaxTicks
    /\ now' = now + 1
    /\ UNCHANGED <<raw, payload, heap, invoice_data, arg, passes, pc, err>>
    /\ UNCHANGED service
    /\ UNCHANGED temp_audio_file

\* The variant that has no finally block.
NoFinally(exists) == exists

\* The finally block, lines 194-198, on os.path.exists(temp_audio_file_path):
\* the file is removed if it is there.  It runs on every exit of the try.
Finally(exists) == IF exists THEN FALSE ELSE exists

\* The audio path after inference: llm_raw_output is at hand and the audio is
\* in its temporary file.
InitAudio ==
    /\ raw \in RawTexts \cup {ExampleText} \cup SchemaTexts
    /\ payload = NoPayload
    /\ heap = <<>>
    /\ invoice_data = 0
    /\ arg = 0
    /\ now = FirstNow
    /\ passes = 0
    /\ pc = "llm_output"
    /\ err = NoError
    /\ llm_service = Loaded
    /\ main = Unloaded
    /\ minio = {}
    /\ response = NoResponse
    /\ upload = NoUpload
    /\ temp_audio_file = TRUE

\* Lines 167-178, 187-188 and the finally block: locate the JSON text and
\* decode it.
Extract ==
    /\ pc = "llm_output"
    /\ LET json_match == JsonMatch(raw)
           decoded    == JsonLoads(json_match.span)
       IN  /\ payload' = IF json_match.found THEN decoded.value ELSE NoPayload
           /\ pc' = IF json_match.found /\ decoded.ok THEN "request" ELSE "failed"
           /\ err' = IF ~json_match.found
                     THEN [type |-> "ValueError", fields |-> {},
                           message |-> "Could not extract a valid JSON object from LLM output."]
                     ELSE IF ~decoded.ok
                     THEN [type |-> "ValueError", fields |-> {},
                           message |-> "Failed to decode JSON from LLM output"]
                     ELSE NoError
    /\ temp_audio_file' = IF pc' = "failed" THEN Finally(temp_audio_file)
                          ELSE temp_audio_file
    /\ UNCHANGED <<raw, heap, invoice_data, arg, now, passes>>
    /\ UNCHANGED service

\* Lines 181 and 189-193: model_validate inside the try; its
\* ValidationError is re-raised according to its text.
ValidateExtracted ==
    /\ pc = "request"
    /\ LET v == ModelValidate(heap, payload)
       IN  /\ heap' = v.heap
           /\ invoice_data' = v.id
           /\ pc' = IF v.ok THEN "validated" ELSE "rejected"
           /\ err' = IF v.ok THEN NoError
                     ELSE [Reraise(ValidationErrorStr(payload))
                             EXCEPT !.fields = v.errors]
    /\ temp_audio_file' = IF pc' = "rejected" THEN Finally(temp_audio_file)
                          ELSE temp_audio_file
    /\ UNCHANGED <<raw, payload, arg, now, passes>>
    /\ UNCHANGED service

\* Lines 184-186 and 189-193: the one autofill_invoice_data call of the
\* function; an exception of it is re-raised according to its text.
ReconcileExtracted ==
    /\ pc = "validated"
    /\ LET a == Autofill(heap, invoice_data, now)
       IN  /\ heap' = a.heap
           /\ arg' = invoice_data
           /\ invoice_data' = IF a.raised THEN invoice_data ELSE a.id
           /\ passes' = IF a.raised THEN passes ELSE passes + 1
           /\ pc' = IF a.raised THEN "raised" ELSE "reconciled"
           /\ err' = IF a.raised THEN Reraise(DateOutOfRange) ELSE NoError
    /\ temp_audio_file' = Finally(temp_audio_file)
    /\ UNCHANGED <<raw, payload, now>>
    /\ UNCHANGED service

Next == Validate \/ Reconcile \/ Tick

Spec == Init /\ [][Next]_vars

NextAudio == Extract \/ ValidateExtracted \/ ReconcileExtracted \/ Tick

SpecAudio == InitAudio /\ [][NextAudio]_vars

----------------------------------------------------------------------------
(* backend/services/storage_service.py and pdf_service.py.                 *)

MINIO_AUDIO_BUCKET == "audio-inputs"

MINIO_PDF_BUCKET == "generated-invoices"

\* Objects a bucket may hold when the service starts.
StoredObjects ==
    {[bucket |-> MINIO_PDF_BUCKET, name |-> "invoice_a.pdf", size |-> 3],
     [bucket |-> MINIO_AUDIO_BUCKET, name |-> "audio-1.wav", size |-> 2]}

\* Object names a download request may carry.
ObjectNames == {"invoice_a.pdf", "audio-1.wav", "missing.bin"}

\* MinIOStorageService.object_exists: stat_object succeeds, or NoSuchKey.
ObjectExists(store, bucket_name, object_name) ==
    \E o \in store : o.bucket = bucket_name /\ o.name = object_name

\* A BytesIO: the bytes it holds and the stream position.
BytesIO == [size |-> 0, pos |-> 0]

\* buffer.write of n bytes at the stream position.
Write(buffer, n) ==
    [size |-> IF buffer.pos + n > buffer.size THEN buffer.pos + n ELSE buffer.size,
     pos  |-> buffer.pos + n]

\* buffer.seek(p)
Seek(buffer, p) == [buffer EXCEPT !.pos = p]

\* buffer.tell()
Tell(buffer) == buffer.pos

\* client.put_object(bucket, name, data, length): the object holds the
\* `length` bytes read from the stream position on (fewer if the stream ends).
PutObject(store, bucket_name, object_name, data, length) ==
    LET left == data.size - data.pos
    IN  {o \in store : ~(o.bucket = bucket_name /\ o.name = object_name)}
        \cup {[bucket |-> bucket_name, name |-> object_name,
               size |-> IF length < left THEN length ELSE left]}

\* The number of bytes doc.build writes for record r: a header and a row
\* for each item.
PdfBytes(h, id) == 1 + Len(h[id].items)

\* What datetime.now().strftime('%H%M%S') can give: two calls of one request
\* may fall in different seconds.
Times == {"101500", "101501"}

\* strftime('%Y%m%d') of day d, as a str; also the text of Iso(d) without its
\* hyphens.
Compact(d) == "D" \o ToString(d)

\* invoice_date.replace('-', ''): a zero-padded date becomes its eight digits,
\* a date without padding becomes fewer digits, and a text that is no date
\* stays what it was.
ReplaceHyphens(s) ==
    CASE s.fmt = "iso"   -> Compact(s.day)
      [] s.fmt = "loose" -> "d" \o ToString(s.day)
      [] s.fmt = "bad"   -> "next week"
      [] OTHER           -> ""

\* The variant that always takes the date of the clock.
GenerateNumberFromClock(invoice_date, today, time) ==
    "INV-" \o Compact(today) \o "-" \o time

\* The invoice number generate_invoice_pdf makes up (pdf_service.py:30).
GenerateNumber(invoice_date, today, time) ==
    "INV-" \o (IF DateTruthy(invoice_date) THEN ReplaceHyphens(invoice_date.v)
                ELSE Compact(today))
           \o "-" \o time

\* "".join(c for c in s if c.isalnum() or c in [' ', '_']).replace(' ', '_')
RECURSIVE JoinSanitized(_)
JoinSanitized(s) ==
    IF s = <<>> THEN ""
    ELSE LET c == Head(s)
             isalnum == \/ \E i \in DOMAIN UpperChars :
                               c \in {UpperChars[i], LowerChars[i]}
                        \/ \E i \in DOMAIN Digits : c = Digits[i]
         IN  (IF c = " " THEN "_"
              ELSE IF isalnum \/ c = "_" THEN c ELSE "")
             \o JoinSanitized(Tail(s))

\* sanitized_client_name, pdf_service.py:36.
SanitizedClientName(client_name) ==
    IF CharsTruthy(client_name) THEN JoinSanitized(client_name.v)
    ELSE "unknown_client"

\* pdf_object_name, pdf_service.py:38.
PdfObjectName(client_name, invoice_number, today, time) ==
    "invoice_" \o SanitizedClientName(client_name) \o "_" \o invoice_number
               \o "_" \o Compact(today) \o time \o ".pdf"

----------------------------------------------------------------------------
(* backend/services/llm_service.py: extract_and_validate_invoice_data     *)
(* from its readiness check on.                                            *)

\* The object the audio endpoint stored and names in the call.
AudioObjectName == "audio-1.wav"

\* MinIOStorageService.download_file: NoSuchKey is raised as
\* FileNotFoundError, any other S3Error as RuntimeError.
DownloadFile(store, bucket_name, object_name, reachable) ==
    IF ~ObjectExists(store, bucket_name, object_name) THEN "FileNotFoundError"
    ELSE IF ~reachable THEN "RuntimeError"
    ELSE "ok"

\* The call has passed its readiness check (lines 142-143); the temporary
\* path is computed (line 145) and nothing is at it.
InitExtract ==
    /\ raw = NoText
    /\ payload = NoPayload
    /\ heap = <<>>
    /\ invoice_data = 0
    /\ arg = 0
    /\ now = FirstNow
    /\ passes = 0
    /\ pc = "ready"
    /\ err = NoError
    /\ llm_service = Loaded
    /\ main = Unloaded
    /\ minio \in SUBSET StoredObjects
    /\ response = NoResponse
    /\ upload = NoUpload
    /\ temp_audio_file = FALSE

\* Lines 149-151: download_file, then open(temp_audio_file_path, "wb") and
\* write.  A failed download leaves no file; a failed write leaves the file
\* open() made.  Each failure leaves through the finally block.
DownloadAudio ==
    /\ pc = "ready"
    /\ \E reachable \in BOOLEAN, written \in BOOLEAN :
         LET downloaded == DownloadFile(minio, MINIO_AUDIO_BUCKET,
                                        AudioObjectName, reachable)
             exists     == IF downloaded = "ok" THEN TRUE ELSE temp_audio_file
         IN  /\ pc' = IF downloaded = "ok" /\ written THEN "downloaded"
                      ELSE "raised"
             /\ err' = IF downloaded # "ok"
                       THEN [type |-> downloaded, fields |-> {},
                             message |-> "download_file failed"]
                       ELSE IF ~written
                       THEN [type |-> "OSError", fields |-> {},
                             message |-> "write failed"]
                       ELSE NoError
             /\ temp_audio_file' = IF pc' = "raised" THEN Finally(exists)
                                   ELSE exists
    /\ UNCHANGED <<raw, payload, heap, invoice_data, arg, now, passes>>
    /\ UNCHANGED service

\* Lines 155-164: create_qwen_invoice_prompt loads the audio with librosa
\* (a failure is raised as ValueError), the model generates, and the output
\* is decoded to llm_raw_output.  Each failure leaves through the finally
\* block.
Infer ==
    /\ pc = "downloaded"
    /\ \E outcome \in {"audio failed", "inference failed", "generated"} :
          /\ pc' = IF outcome = "generated" THEN "llm_output" ELSE "raised"
          /\ err' = IF outcome = "audio failed"
                    THEN [type |-> "ValueError", fields |-> {},
                          message |-> "Error loading audio file"]
                    ELSE IF outcome = "inference failed"
                    THEN [type |-> "RuntimeError", fields |-> {},
                          message |-> "generate failed"]
                    ELSE NoError
          /\ IF outcome = "generated"
             THEN raw' \in RawTexts \cup {ExampleText} \cup SchemaTexts
             ELSE raw' = raw
          /\ temp_audio_file' = IF outcome = "generated" THEN temp_audio_file
                                ELSE Finally(temp_audio_file)
    /\ UNCHANGED <<payload, heap, invoice_data, arg, now, passes>>
    /\ UNCHANGED service

NextExtract ==
    \/ DownloadAudio
    \/ Infer
    \/ Extract
    \/ ValidateExtracted
    \/ ReconcileExtracted

SpecExtract == InitExtract /\ [][NextExtract]_vars

----------------------------------------------------------------------------
(* backend/main.py: the endpoints.                                         *)

\* Request bodies of the structured-data endpoint.
ServiceBodies ==
    {Body(n, Absent, num, d, Absent, its, Absent, Absent, Absent) :
        n \in {Absent, Some(JohnDoe)}, num \in {Absent, Some(""), Some("INV-7")},
        d \in {Absent, Some(Loose(EarlyDay)), Some(BadDate), Some(Iso(LateDay))},
        its \in ItemLists}

\* The service after its modules are imported: nothing loaded yet.
InitService ==
    /\ raw = NoText
    /\ payload = NoPayload
    /\ heap = <<>>
    /\ invoice_data = 0
    /\ arg = 0
    /\ now = FirstNow
    /\ passes = 0
    /\ pc = "idle"
    /\ err = NoError
    /\ llm_service = Unloaded
    /\ main = Unloaded
    /\ minio \in SUBSET StoredObjects
    /\ response = NoResponse
    /\ upload = NoUpload
    /\ temp_audio_file = FALSE

\* The try block of load_qwen2_audio_model (lines 28-52) on the globals g:
\* the processor is assigned first (line 30), then the model (33 or 42), then
\* the model is put in eval mode (50); an exception of one of the three
\* calls leaves what was assigned.
LoadAttempt(g, outcome) ==
    IF outcome = "processor failed" THEN g
    ELSE LET g1 == [g EXCEPT !.qwen2_audio_processor = "loaded"]
         IN  IF outcome = "model failed" THEN g1
             ELSE [g1 EXCEPT !.qwen2_audio_model = "loaded"]

\* The variant whose handler forgets the processor.
ResetModelOnly(g) == [g EXCEPT !.qwen2_audio_model = "None"]

\* The except block, lines 56-58: both globals back to None.
ResetGlobals(g) ==
    [g EXCEPT !.qwen2_audio_processor = "None", !.qwen2_audio_model = "None"]

\* The globals after load_qwen2_audio_model returns.
LoadQwen2AudioModel(g, outcome) ==
    IF g.qwen2_audio_model = "None" \/ g.qwen2_audio_processor = "None"
    THEN IF outcome = "loaded" THEN LoadAttempt(g, outcome)
         ELSE ResetGlobals(LoadAttempt(g, outcome))
    ELSE g

\* load_qwen2_audio_model, called at startup (main.py:37) and by
\* /load_model/ (main.py:54).  It assigns the globals of llm_service.py;
\* the names main.py imported stay bound to what they were at the import.
LoadModel ==
    /\ pc = "idle"
    /\ \E outcome \in {"loaded", "processor failed", "model failed",
                        "eval failed"} :
          /\ llm_service' = LoadQwen2AudioModel(llm_service, outcome)
          /\ response' =
                [endpoint |-> "load_model", content |-> None,
                 object |-> "", status |-> 200,
                 detail |->
                     IF llm_service.qwen2_audio_model = "None"
                        \/ llm_service.qwen2_audio_processor = "None"
                     THEN IF outcome = "loaded"
                          THEN "Qwen2-Audio model loaded successfully!"
                          ELSE "Failed to load Qwen2-Audio model"
                     ELSE "Qwen2-Audio model already loaded."]
    /\ UNCHANGED <<raw, payload, heap, invoice_data, arg, now, passes, pc, err,
                   main, minio, upload>>
    /\ UNCHANGED temp_audio_file

\* /model_status/: check_model_devices on the name main.py imported.
ModelStatus ==
    /\ pc = "idle"
    /\ response' = [endpoint |-> "model_status", content |-> None,
                       object |-> "", status |-> 200,
                    detail |-> IF main.qwen2_audio_model # "None"
                               THEN "Qwen2-Audio model device map"
                               ELSE "Qwen2-Audio model is not loaded."]
    /\ pc' = "responded"
    /\ UNCHANGED <<raw, payload, heap, invoice_data, arg, now, passes, err,
                   llm_service, main, minio, upload>>
    /\ UNCHANGED temp_audio_file

\* /generate_invoice_from_audio/: the readiness check of lines 79-83 on the
\* names main.py imported; past it, the audio is uploaded (lines 91-101) and
\* extract_and_validate_invoice_data takes over.
AudioRequest ==
    /\ pc = "idle"
    /\ IF main.qwen2_audio_model = "None" \/ main.qwen2_audio_processor = "None"
       THEN /\ response' = [endpoint |-> "generate_invoice_from_audio", content |-> None,
                       object |-> "",
                            status |-> 503,
                            detail |-> "Qwen2-Audio model is not loaded. Please call /load_model/ first."]
            /\ pc' = "responded"
            /\ minio' = minio
       ELSE /\ response' = response
            /\ pc' = "audio_uploaded"
            /\ minio' = PutObject(minio, MINIO_AUDIO_BUCKET, "audio-<uuid>.wav",
                                  Seek(Write(BytesIO, 2), 0), 2)
    /\ UNCHANGED <<raw, payload, heap, invoice_data, arg, now, passes, err,
                   llm_service, main, upload>>
    /\ UNCHANGED temp_audio_file

\* Lines 170-191 and 204-231: what a download handler raises inside its try.
\* A missing object raises HTTPException(404); for an object that exists,
\* FileResponse is called without a path and with a `content` argument it
\* does not have, which raises TypeError.
DownloadRaises(store, bucket_name, object_name) ==
    IF ~ObjectExists(store, bucket_name, object_name)
    THEN "HTTPException" ELSE "TypeError"

\* The except clauses of a download handler: FileNotFoundError is answered
\* with 404, every other Exception (HTTPException is one) with 500.
DownloadStatus(raised) == IF raised = "FileNotFoundError" THEN 404 ELSE 500

\* /download_invoice/{object_name}
DownloadInvoice ==
    /\ pc = "idle"
    /\ \E object_name \in ObjectNames :
          response' = [endpoint |-> "download_invoice", content |-> None,
                       object |-> object_name,
                       status |-> DownloadStatus(
                           DownloadRaises(minio, MINIO_PDF_BUCKET, object_name)),
                       detail |-> "An error occurred while downloading the PDF"]
    /\ pc' = "responded"
    /\ UNCHANGED <<raw, payload, heap, invoice_data, arg, now, passes, err,
                   llm_service, main, minio, upload>>
    /\ UNCHANGED temp_audio_file

\* /get_audio/{object_name}
GetAudio ==
    /\ pc = "idle"
    /\ \E object_name \in ObjectNames :
          response' = [endpoint |-> "get_audio", content |-> None,
                       object |-> object_name,
                       status |-> DownloadStatus(
                           DownloadRaises(minio, MINIO_AUDIO_BUCKET, object_name)),
                       detail |-> "An error occurred while retrieving the audio"]
    /\ pc' = "responded"
    /\ UNCHANGED <<raw, payload, heap, invoice_data, arg, now, passes, err,
                   llm_service, main, minio, upload>>
    /\ UNCHANGED temp_audio_file

\* /generate_invoice_from_data/: a request body arrives.
DataRequest ==
    /\ pc = "idle"
    /\ payload' \in ServiceBodies
    /\ pc' = "request"
    /\ UNCHANGED <<raw, heap, invoice_data, arg, now, passes, err, service>>
    /\ UNCHANGED temp_audio_file

\* The handler going on with the record as it is when autofill raises.
ProcessDataSwallow ==
    /\ pc = "validated"
    /\ LET copy == ModelCopyDeep(heap, invoice_data)
           a    == Autofill(copy.heap, copy.id, now)
       IN  /\ heap' = a.heap
           /\ arg' = copy.id
           /\ invoice_data' = IF a.raised THEN copy.id ELSE a.id
           /\ passes' = IF a.raised THEN passes ELSE passes + 1
           /\ pc' = "reconciled"
           /\ err' = NoError
    /\ UNCHANGED <<raw, payload, now, service>>
    /\ UNCHANGED temp_audio_file

\* Lines 142-144: a deep copy of the body's record, then the one
\* autofill_invoice_data call of the handler.
ProcessData ==
    /\ pc = "validated"
    /\ LET copy == ModelCopyDeep(heap, invoice_data)
           a    == Autofill(copy.heap, copy.id, now)
       IN  /\ heap' = a.heap
           /\ arg' = copy.id
           /\ invoice_data' = IF a.raised THEN copy.id ELSE a.id
           /\ passes' = IF a.raised THEN passes ELSE passes + 1
           /\ pc' = IF a.raised THEN "raised" ELSE "reconciled"
           /\ err' = IF a.raised
                     THEN [type |-> "OverflowError", fields |-> {},
                           message |-> "date value out of range"]
                     ELSE NoError
    /\ UNCHANGED <<raw, payload, now, service>>
    /\ UNCHANGED temp_audio_file

\* generate_invoice_pdf(invoice_data_processed), main.py:147: the invoice
\* number is made up when there is none, the document is built into a
\* BytesIO, the stream is rewound, and upload_file is called with
\* length = buffer.tell(); the upload succeeds or raises.
GeneratePdf ==
    /\ pc = "reconciled"
    /\ \E time \in Times, stamp \in Times :
         LET invoice == heap[invoice_data]
             invoice_number ==
                 IF StrTruthy(invoice.invoice_number)
                 THEN invoice.invoice_number.v
                 ELSE GenerateNumber(invoice.invoice_date, now, time)
             pdf_object_name ==
                 PdfObjectName(invoice.client_name, invoice_number, now, stamp)
             built  == Write(BytesIO, PdfBytes(heap, invoice_data))
             buffer == Seek(built, 0)
             length == Tell(buffer)
         IN  /\ heap' = [heap EXCEPT ![invoice_data].invoice_number =
                            Some(invoice_number)]
             /\ upload' = [invoice |-> invoice_data,
                           object_name |-> pdf_object_name,
                           written |-> built.size, length |-> length]
             /\ \E stored \in BOOLEAN :
                   /\ minio' = IF stored
                               THEN PutObject(minio, MINIO_PDF_BUCKET,
                                              pdf_object_name, buffer, length)
                               ELSE minio
                   /\ pc' = IF stored THEN "rendered" ELSE "pdf_failed"
                   /\ err' = IF stored THEN NoError
                             ELSE [type |-> "RuntimeError", fields |-> {},
                                   message |-> "Failed to generate or upload PDF"]
    /\ UNCHANGED <<raw, payload, invoice_data, arg, now, passes,
                   llm_service, main, response>>
    /\ UNCHANGED temp_audio_file

\* The answer of /generate_invoice_from_data/: 422 for a body that does not
\* validate, 500 for any exception of the handler (lines 155-157), else 200
\* with invoice_data_processed.model_dump() and the object name (150-154).
RespondData ==
    /\ pc \in {"rejected", "raised", "pdf_failed", "rendered"}
    /\ response' = [endpoint |-> "generate_invoice_from_data",
                    content  |-> IF pc = "rendered"
                                 THEN Deref(heap, invoice_data) ELSE None,
                    object   |-> IF pc = "rendered" THEN upload.object_name
                                 ELSE "",
                    status   |-> IF pc = "rendered" THEN 200
                                 ELSE IF pc = "rejected" THEN 422 ELSE 500,
                    detail   |-> IF pc = "rendered"
                                 THEN "Invoice PDF generated from provided data and stored in MinIO."
                                 ELSE err.message]
    /\ pc' = "responded"
    /\ UNCHANGED <<raw, payload, heap, invoice_data, arg, now, passes, err,
                   llm_service, main, minio, upload>>
    /\ UNCHANGED temp_audio_file

NextService ==
    \/ LoadModel
    \/ ModelStatus
    \/ AudioRequest
    \/ DownloadInvoice
    \/ GetAudio
    \/ DataRequest
    \/ Validate
    \/ ProcessData
    \/ GeneratePdf
    \/ RespondData

SpecService == InitService /\ [][NextService]_vars

----------------------------------------------------------------------------
(* Properties of the structured-data path.                                 *)

\* The record last passed to autofill_invoice_data, as a value.
In == Deref(heap, arg)

\* The current record, as a value.
Out == Deref(heap, invoice_data)

\* The lower-cased, trimmed client_name of r is a key of the client table.
ClientKnown(r) ==
    CharsTruthy(r.client_name) /\ InUserDb(Strip(Lower(r.client_name.v)))

ClientDefaultRate(r) == UserInfo(Strip(Lower(r.client_name.v))).default_tax_rate

\* A call of autofill_invoice_data that returned.
Returned == Reconcile /\ pc' = "reconciled"

\* C1: reconciling a reconciled record changes no field: the second pass
\* returns a record equal, field for field and item for item, to the one
\* it was given, and it never raises.
C1_Idempotent ==
    /\ passes = 2 => Out = In
    /\ pc = "raised" => passes = 0

C1_Witness ==
    /\ passes = 2
    /\ Deref(heap, 1 + Len(payload.items)) # Out
    /\ payload.tax_rate = Absent
    /\ ClientKnown(Out)
    /\ payload.invoice_date = Absent

\* C2: every returned record satisfies the four monetary invariants: item
\* total = round(quantity * unit_price, 2), subtotal = sum of the item
\* totals (0 without items), tax_amount = round(subtotal * tax_rate, 2) with
\* an unset rate read as 0, grand_total = subtotal + tax_amount.
C2_MonetaryInvariants ==
    pc = "reconciled" =>
        /\ \A i \in DOMAIN Out.items :
              Out.items[i].total =
                 Some(LineTotal(Out.items[i].quantity.v, Out.items[i].unit_price.v))
        /\ Out.subtotal =
              Some(SumSeq([i \in DOMAIN Out.items |-> Out.items[i].total.v]))
        /\ Out.tax_amount =
              Some(TaxOf(Out.subtotal.v,
                         IF Out.tax_rate = None THEN 0 ELSE Out.tax_rate.v))
        /\ Out.grand_total = Some(Out.subtotal.v + Out.tax_amount.v)

\* The payload carried amounts and an item total that disagree with its items.
C2_Witness ==
    /\ pc = "reconciled"
    /\ passes = 1
    /\ payload.subtotal = Some(99900)
    /\ \E i \in DOMAIN payload.items : payload.items[i] = WidgetItem
    /\ In.subtotal # Out.subtotal
    /\ Out.subtotal # Some(0)

\* The only fault of payload p is that some item has no unit_price, and the
\* description of each such item contains a catalog key.
OnlyUnitPriceMissing(p) ==
    /\ TaxRateErrors(p) = {}
    /\ \E i \in DOMAIN p.items : p.items[i].unit_price = Absent
    /\ \A i \in DOMAIN p.items :
          /\ ItemErrors(p.items[i], i) \subseteq {FieldError(i, "unit_price")}
          /\ p.items[i].unit_price = Absent =>
                \E k \in DOMAIN item_db :
                   Contains(Strip(Lower(p.items[i].description.v)), item_db[k].key)

\* C4: an item given with a description and a quantity but no unit_price is
\* accepted as a record, and reconciling fills unit_price from the first
\* catalog key its description contains (75.00 and total 150.00 for two
\* "Mechanical Keyboard Pro").
C4_CatalogFill ==
    (OnlyUnitPriceMissing(payload) /\ pc # "request") =>
        /\ pc # "rejected"
        /\ pc = "reconciled" =>
              \A i \in DOMAIN payload.items :
                 payload.items[i] = KeyboardItem =>
                    /\ Out.items[i].unit_price = Some(7500)
                    /\ Out.items[i].total = Some(15000)

\* C5: a tax_rate set to a value other than 0.08 is returned unchanged,
\* also when the client table has a default rate for the client.
C5_ExplicitRateKept ==
    [][(Returned /\ IsSome(Out.tax_rate) /\ Out.tax_rate.v # DefaultTaxRate)
         => Out'.tax_rate = Out.tax_rate]_vars

C5_Witness ==
    /\ pc = "reconciled"
    /\ passes = 1
    /\ In.tax_rate = Some(5)
    /\ In.client_name = Some(AcmeCorpPadded)
    /\ ClientKnown(In)
    /\ ClientDefaultRate(In) = 9
    /\ Out.tax_rate = Some(5)
    /\ Out.client_address = Some("456 Oak Ave, Metropolis, NY")

\* C6: with tax_rate unset or 0.08 and a client_name that normalises to a
\* key of the client table, the returned tax_rate is that client's default
\* and tax_amount and grand_total are computed with it.
C6_DefaultRateOverride ==
    [][(Returned /\ Out.tax_rate \in {None, Some(DefaultTaxRate)} /\ ClientKnown(Out))
         => /\ Out'.tax_rate = Some(ClientDefaultRate(Out))
            /\ Out'.tax_amount = Some(TaxOf(Out'.subtotal.v, ClientDefaultRate(Out)))
            /\ Out'.grand_total = Some(Out'.subtotal.v + Out'.tax_amount.v)]_vars

C6_Witness ==
    /\ pc = "reconciled"
    /\ passes = 1
    /\ In.tax_rate = None
    /\ In.client_name = Some(JohnDoe)
    /\ Out.tax_rate = Some(7)
    /\ Out.subtotal = Some(120000)
    /\ Out.tax_amount = Some(8400)

\* C7: a call leaves every object that existed before it as it was, the
\* argument and its items among them, and the record it returns is a new
\* object that shares no item with the argument.
C7_InputUntouched ==
    [][Reconcile =>
         /\ \A k \in DOMAIN heap : heap'[k] = heap[k]
         /\ Deref(heap', arg') = Out
         /\ pc' = "reconciled" =>
               /\ invoice_data' # arg'
               /\ Range(heap'[invoice_data'].items) \cap Range(heap'[arg'].items) = {}]_vars

\* A call that changed an item total, the client address, the rate and the dates.
C7_Witness ==
    /\ pc = "reconciled"
    /\ passes = 1
    /\ \E i \in DOMAIN In.items : In.items[i].total # Out.items[i].total
    /\ In.client_address # Out.client_address
    /\ In.tax_rate # Out.tax_rate
    /\ In.invoice_date # Out.invoice_date

\* C8: a record with neither invoice_date nor due_date is returned with
\* invoice_date = the current date and due_date = the current date + 30 days.
C8_DateFallback ==
    [][(Returned /\ Out.invoice_date = None /\ Out.due_date = None)
         => /\ Out'.invoice_date = Some(Iso(now))
            /\ Out'.due_date = Some(Iso(now + DueDays))]_vars

C8_Witness ==
    /\ pc = "reconciled"
    /\ passes = 1
    /\ In.invoice_date = None
    /\ In.due_date = None
    /\ Out.invoice_date = Some(Iso(FirstNow + 1))
    /\ Out.due_date = Some(Iso(FirstNow + 1 + DueDays))

\* C9: when the argument has no due_date (None or empty), the returned
\* due_date is the returned invoice_date + 30 days; unless the argument's
\* invoice_date was supplied and does not parse, and then invoice_date is
\* returned as supplied and due_date is the current date + 30 days.
C9_DueDateInvariant ==
    [][(Returned /\ ~DateTruthy(Out.due_date))
         => LET parsed == Strptime(Out'.invoice_date.v)
            IN  IF parsed.ok
                THEN Out'.due_date = Some(Iso(parsed.day + DueDays))
                ELSE /\ DateTruthy(Out.invoice_date)
                     /\ Out'.invoice_date = Out.invoice_date
                     /\ Out'.due_date = Some(Iso(now + DueDays))]_vars

\* A supplied invoice_date that parses, an empty due_date, a later clock.
C9_Witness ==
    /\ pc = "reconciled"
    /\ passes = 1
    /\ now = FirstNow + 1
    /\ In.due_date = Some(EmptyDate)
    /\ In.invoice_date = Some(Loose(EarlyDay))
    /\ Out.invoice_date = Some(Loose(EarlyDay))
    /\ Out.due_date = Some(Iso(EarlyDay + DueDays))

----------------------------------------------------------------------------
(* Properties of the audio path from the model output on.                  *)

\* C3: the fenced example (client "John Doe", one Laptop at 1200.0, no
\* tax_rate key) is extracted, and reconciled to subtotal 1200.0,
\* client_address "123 Elm St, Springfield, IL" and, the unset rate being
\* replaced by John Doe's default 0.07, tax_amount 84.0 and grand_total 1284.0.
C3_EndToEnd ==
    /\ (raw = ExampleText /\ pc # "llm_output") =>
          /\ payload = ExampleObject
          /\ pc \in {"request", "validated", "reconciled"}
    /\ (payload = ExampleObject /\ pc = "reconciled") =>
          /\ Out.subtotal = Some(120000)
          /\ Out.tax_rate = Some(7)
          /\ Out.tax_amount = Some(8400)
          /\ Out.grand_total = Some(128400)
          /\ Out.client_address = Some("123 Elm St, Springfield, IL")

\* C3 as stated: tax_amount 96.0 (1200 * 0.08) and grand_total 1296.0.
C3_AsStated ==
    /\ (raw = ExampleText /\ pc # "llm_output") =>
          /\ payload = ExampleObject
          /\ pc \in {"request", "validated", "reconciled"}
    /\ (payload = ExampleObject /\ pc = "reconciled") =>
          /\ Out.subtotal = Some(120000)
          /\ Out.tax_amount = Some(9600)
          /\ Out.grand_total = Some(129600)
          /\ Out.client_address = Some("123 Elm St, Springfield, IL")

C3_Witness ==
    /\ raw = ExampleText
    /\ pc = "reconciled"
    /\ passes = 1
    /\ In.tax_rate = Some(DefaultTaxRate)
    /\ In.client_address = None

\* The position of the "}" that balances the "{" before position i, depth
\* braces being open (0: none).
RECURSIVE Balance(_, _, _)
Balance(t, i, depth) ==
    IF i > Len(t) THEN 0
    ELSE IF t[i] = "{" THEN Balance(t, i + 1, depth + 1)
    ELSE IF t[i] = "}" THEN (IF depth = 1 THEN i ELSE Balance(t, i + 1, depth - 1))
    ELSE Balance(t, i + 1, depth)

\* A ```json fence opens at i and holds a balanced object that the closing
\* ``` follows.
FencedObjectAt(t, i) ==
    /\ t[i] = "J"
    /\ SkipSpace(t, i) <= Len(t)
    /\ t[SkipSpace(t, i)] = "{"
    /\ Balance(t, SkipSpace(t, i) + 1, 1) # 0
    /\ ClosesFence(t, Balance(t, SkipSpace(t, i) + 1, 1))

\* The span the two strategies of C10 pick: the object inside the first
\* ```json fence, else the balanced {...} span that opens at the first "{".
TwoStrategySpan(t) ==
    LET fences   == {i \in DOMAIN t : FencedObjectAt(t, i)}
        opens    == {i \in DOMAIN t : t[i] = "{"}
        balanced == {i \in opens : (\A j \in opens : i <= j) /\ Balance(t, i + 1, 1) # 0}
    IN  IF fences # {}
        THEN LET i == CHOOSE a \in fences : \A b \in fences : a <= b
                 o == SkipSpace(t, i)
             IN  [found |-> TRUE, span |-> SubSeq(t, o, Balance(t, o + 1, 1))]
        ELSE IF balanced # {}
        THEN LET i == CHOOSE a \in balanced : \A b \in balanced : a <= b
             IN  [found |-> TRUE, span |-> SubSeq(t, i, Balance(t, i + 1, 1))]
        ELSE NoMatch

\* C10: the extractor decodes the object inside the ```json fence when there
\* is one, else the outermost balanced {...} span: whenever that span is a
\* well-formed object, extraction succeeds with it, whatever braces or prose
\* surround it.
C10_TwoStrategies ==
    pc # "llm_output" =>
        LET picked == TwoStrategySpan(raw)
        IN  (picked.found /\ JsonLoads(picked.span).ok) =>
                /\ pc # "failed"
                /\ payload = JsonLoads(picked.span).value

\* Some "{" of the text is followed, somewhere, by a "}".
BraceFollowed(t) ==
    \E i, j \in DOMAIN t : i < j /\ t[i] = "{" /\ t[j] = "}"

\* C11: extraction fails in two distinct ways and returns no record in
\* either: text in which no "{" is followed by a "}" fails with "no JSON
\* found", and only such text does; text whose located span is not valid
\* JSON fails with "malformed JSON"; a failed run stays failed, nothing is
\* decoded, validated or reconciled after it.
C11_ExtractionFailures ==
    pc # "llm_output" =>
        /\ ~BraceFollowed(raw) <=>
              (pc = "failed" /\ err.type = "ValueError" /\ err.message =
                  "Could not extract a valid JSON object from LLM output.")
        /\ (BraceFollowed(raw) /\ ~JsonLoads(JsonMatch(raw).span).ok) =>
              (pc = "failed" /\ err.type = "ValueError" /\ err.message =
                  "Failed to decode JSON from LLM output")
        /\ pc = "failed" =>
              /\ payload = NoPayload
              /\ invoice_data = 0
              /\ heap = <<>>
              /\ passes = 0

\* {"client_name": } : braces around something that is no member list.
C11_Witness ==
    /\ pc = "failed"
    /\ raw = <<"{", "x", "}">>
    /\ err.message = "Failed to decode JSON from LLM output"

----------------------------------------------------------------------------
(* Properties of record construction.                                      *)

\* The fields of payload p that break a constraint the claim C12 lists.
Violated(p) ==
    {e \in [item : DOMAIN p.items, field : {"quantity", "unit_price"}] :
        IsSome(p.items[e.item][e.field]) /\ p.items[e.item][e.field].v <= 0}
    \cup (IF IsSome(p.tax_rate) /\ (p.tax_rate.v < 0 \/ p.tax_rate.v > 100)
          THEN {FieldError(0, "tax_rate")} ELSE {})

\* C12: a payload with an item of quantity <= 0 or unit_price <= 0, or with
\* tax_rate outside [0, 1], is rejected with a validation error that names
\* every violated field; no record is built and the payload's values are
\* left as they were.
C12_Rejection ==
    (pc # "request" /\ Violated(payload) # {}) =>
        /\ pc = "rejected"
        /\ err.type = "ValidationError"
        /\ Violated(payload) \subseteq err.fields
        /\ invoice_data = 0
        /\ heap = <<>>
        /\ passes = 0

\* Three violations at once: quantity -1, unit_price 0, tax_rate 1.5.
C12_Witness ==
    /\ pc = "rejected"
    /\ payload.tax_rate = Some(150)
    /\ Len(payload.items) = 2
    /\ payload.items[2] = MouseItem
    /\ payload.items[1] = LaptopItem
    /\ err.fields = {FieldError(0, "tax_rate"), FieldError(2, "quantity"),
                     FieldError(2, "unit_price")}

\* The record just built by validation, before any reconciliation.
Constructed == pc = "validated" /\ passes = 0

\* C13 as stated: every constructed item has total = round(quantity *
\* unit_price, 2), also when the payload supplies a total, and the subtotal
\* at construction is the sum of those products.
C13_AsStated ==
    Constructed =>
        /\ \A i \in DOMAIN Out.items :
              Out.items[i].total =
                 Some(LineTotal(Out.items[i].quantity.v, Out.items[i].unit_price.v))
        /\ Out.subtotal =
              Some(SumSeq([i \in DOMAIN Out.items |->
                     LineTotal(Out.items[i].quantity.v, Out.items[i].unit_price.v)]))

\* C13: a constructed item has total = round(quantity * unit_price, 2) when
\* the payload gives no total (or null); a total the payload supplies is
\* kept as supplied; the subtotal at construction is the sum of the item
\* totals as they then stand.
C13_ConstructedTotals ==
    Constructed =>
        /\ \A i \in DOMAIN Out.items :
              IF IsSome(payload.items[i].total)
              THEN Out.items[i].total = payload.items[i].total
              ELSE Out.items[i].total =
                     Some(LineTotal(Out.items[i].quantity.v, Out.items[i].unit_price.v))
        /\ Out.subtotal =
              Some(SumSeq([i \in DOMAIN Out.items |-> Out.items[i].total.v]))

\* One item with a computed total, one with a supplied total that is not
\* the product.
C13_Witness ==
    /\ Constructed
    /\ payload.items = <<LaptopItem, WidgetItem>>
    /\ Out.items[1].total = Some(120000)
    /\ Out.items[2].total = Some(99900)
    /\ LineTotal(Out.items[2].quantity.v, Out.items[2].unit_price.v) = 38
    /\ Out.subtotal = Some(219900)

\* C14: autofill_invoice_data returns a record for every validated record
\* and raises no exception.
C14_Total == pc # "raised"

----------------------------------------------------------------------------
(* Frame of the reconciler.                                                *)

\* C19: a returning call changes no descriptive field the caller supplied:
\* client_name, invoice_number, notes, each item's description, quantity and
\* unit_price, a non-empty client_address, a non-empty invoice_date and a
\* non-empty due_date come back as given; client_address and tax_rate change
\* only when the lower-cased, trimmed client_name is a key of the client table.
C19_Frame ==
    [][Returned =>
         /\ Out'.client_name = Out.client_name
         /\ Out'.invoice_number = Out.invoice_number
         /\ Out'.notes = Out.notes
         /\ Len(Out'.items) = Len(Out.items)
         /\ \A i \in DOMAIN Out.items :
               /\ Out'.items[i].description = Out.items[i].description
               /\ Out'.items[i].quantity = Out.items[i].quantity
               /\ Out'.items[i].unit_price = Out.items[i].unit_price
         /\ StrTruthy(Out.client_address) => Out'.client_address = Out.client_address
         /\ DateTruthy(Out.invoice_date) => Out'.invoice_date = Out.invoice_date
         /\ DateTruthy(Out.due_date) => Out'.due_date = Out.due_date
         /\ ~ClientKnown(Out) =>
               /\ Out'.client_address = Out.client_address
               /\ Out'.tax_rate = Out.tax_rate]_vars

\* An unknown client, a date strptime reads but strftime would write
\* differently, a due date that does not parse, and items.
C19_Witness ==
    /\ pc = "reconciled"
    /\ passes = 1
    /\ In.client_name = Some(Bob)
    /\ ~ClientKnown(In)
    /\ In.invoice_date = Some(Loose(EarlyDay))
    /\ In.due_date = Some(BadDate)
    /\ In.items # <<>>
    /\ Out.invoice_date = Some(Loose(EarlyDay))
    /\ Out.due_date = Some(BadDate)
    /\ Out.client_address = None
    /\ Out.tax_rate = Some(DefaultTaxRate)

----------------------------------------------------------------------------
(* Failure classes of the audio path.                                      *)

\* C16: when the decoded object violates a record constraint, the function
\* raises ValueError, which the endpoint answers with 400, the class of the
\* other extraction failures, and never RuntimeError (500), whatever text
\* the violating values contain.
C16_SchemaViolationIsBadInput ==
    pc = "rejected" =>
        /\ err.type = "ValueError"
        /\ StatusOf(err) = 400

----------------------------------------------------------------------------
(* Properties of the endpoints.                                            *)

C17_MissingIsNotFound ==
    /\ (response.endpoint = "download_invoice"
        /\ ~ObjectExists(minio, MINIO_PDF_BUCKET, response.object)) =>
          response.status = 404
    /\ (response.endpoint = "get_audio"
        /\ ~ObjectExists(minio, MINIO_AUDIO_BUCKET, response.object)) =>
          response.status = 404

\* C18: the audio endpoint answers 503 "model is not loaded" exactly when
\* the model or the processor is not loaded: after a successful
\* load_qwen2_audio_model every call passes the readiness check, and
\* /model_status/ reports on the loaded model.
C18_Readiness ==
    [][/\ AudioRequest =>
             (response'.status = 503 <=> llm_service # Loaded)
       /\ (ModelStatus /\ llm_service = Loaded) =>
             response'.detail # "Qwen2-Audio model is not loaded."]_vars

\* C20: the length passed to the storage upload is the number of bytes the
\* PDF build wrote to the buffer, and the stored object holds them all.
C20_WholeDocumentUploaded ==
    /\ upload # NoUpload => upload.length = upload.written
    /\ \A o \in minio : o.name = upload.object_name => o.size = upload.written

\* C21: the record a generate endpoint returns after a successful PDF
\* generation has an invoice_number: a supplied non-empty number is returned
\* unchanged, and otherwise the number is "INV-", the record's invoice_date
\* without hyphens, "-" and a time of day, and the returned object name is
\* the one built from that very number.
C21_InvoiceNumberReturned ==
    response.status = 200
        /\ response.endpoint \in {"generate_invoice_from_data",
                                  "generate_invoice_from_audio"} =>
      LET returned == response.content
      IN  /\ StrTruthy(returned.invoice_number)
          /\ StrTruthy(payload.invoice_number) =>
                returned.invoice_number = payload.invoice_number
          /\ ~StrTruthy(payload.invoice_number) =>
                \E time \in Times :
                    returned.invoice_number.v =
                        "INV-" \o ReplaceHyphens(returned.invoice_date.v)
                               \o "-" \o time
          /\ \E stamp \in Times :
                response.object =
                    PdfObjectName(returned.client_name,
                                  returned.invoice_number.v, now, stamp)
          /\ ObjectExists(minio, MINIO_PDF_BUCKET, response.object)

\* A body without a number and with a date written without padding: the
\* number is generated in one second and the object named in the next.
C21_Witness ==
    /\ response.status = 200
    /\ response.endpoint = "generate_invoice_from_data"
    /\ payload.invoice_number = Absent
    /\ payload.invoice_date = Some(Loose(EarlyDay))
    /\ response.content.invoice_number =
          Some("INV-" \o ReplaceHyphens(Loose(EarlyDay)) \o "-" \o "101500")
    /\ response.object =
          PdfObjectName(response.content.client_name,
                        response.content.invoice_number.v, now, "101501")

\* C22: when a call of load_qwen2_audio_model returns, the processor and the
\* model are both loaded or both None; a failed load leaves both None, and a
\* call made while both are loaded changes neither and loads nothing.
C22_BothOrNeither ==
    [][LoadModel =>
         /\ llm_service' \in {Loaded, Unloaded}
         /\ response'.detail = "Failed to load Qwen2-Audio model" =>
               llm_service' = Unloaded
         /\ llm_service = Loaded =>
               /\ llm_service' = Loaded
               /\ response'.detail = "Qwen2-Audio model already loaded."]_vars

\* A load that failed: the last answer reports it and nothing is loaded.
C22_Witness ==
    /\ response.endpoint = "load_model"
    /\ response.detail = "Failed to load Qwen2-Audio model"
    /\ llm_service = Unloaded

\* C23: extract_and_validate_invoice_data leaves no temporary audio file:
\* when the call has ended after its readiness check, by returning a record
\* or by failing at download, audio loading, inference, JSON extraction,
\* validation or autofill, the file at its temporary path does not exist.
C23_NoTempFileLeft ==
    pc \in {"raised", "failed", "rejected", "reconciled"} => ~temp_audio_file

\* The call failed at validation after the audio had been written to the
\* temporary file and read by the model.
C23_Witness ==
    /\ pc = "rejected"
    /\ raw # NoText
    /\ err.type = "ValueError"
    /\ ~temp_audio_file

\* C24: whatever subtotal, tax_amount and grand_total the payload carries,
\* the record after construction and after each autofill_invoice_data call
\* has subtotal equal to the sum of its item totals, tax_amount equal to the
\* rounded subtotal times tax_rate, and grand_total equal to their sum.
C24_DerivedTotalsRecomputed ==
    (Constructed \/ pc = "reconciled") =>
        LET rate == IF Out.tax_rate = None THEN 0 ELSE Out.tax_rate.v
        IN  /\ Out.subtotal = Some(SumTotals(Out.items))
            /\ Out.tax_amount = Some(TaxOf(SumTotals(Out.items), rate))
            /\ Out.grand_total =
                  Some(SumTotals(Out.items) + TaxOf(SumTotals(Out.items), rate))

\* A constructed record whose payload carried three amounts that disagree
\* with its items: none of them is in the record.
C24_Witness ==
    /\ Constructed
    /\ payload.items # <<>>
    /\ payload.subtotal = Some(99900)
    /\ payload.tax_amount = Some(99900)
    /\ payload.grand_total = Some(99900)
    /\ Out.subtotal # payload.subtotal
    /\ Out.tax_amount # payload.tax_amount
    /\ Out.grand_total # payload.grand_total

====
